---- MODULE Spec2Model ----
(***************************************************************************)
(* Model of second_brain/infrastructure/aws/s3.py: S3Client.upload_folder, *)
(* S3Client.__create_bucket_if_doesnt_exist and S3Client.download_folder,  *)
(* run by two caller threads that share one client, one local filesystem   *)
(* and one remote bucket.                                                  *)
(*                                                                         *)
(* A path is a sequence of components, a component and an S3 s3_key are       *)
(* sequences of one-character strings.                                     *)
(***************************************************************************)
EXTENDS Integers, Sequences, FiniteSets, TLC

\* ------------------------------------------------------------------ bounds
MaxCalls == 2
MaxPrefixLen == 3
MaxNameLen == 2

Procs == {1, 2}
Contents == {1, 2}

\* ------------------------------------------------------ strings and paths
Slash == "/"
ZipSuffix == <<".", "z", "i", "p">>
Chars == {Slash, "a", "b"}
NameChars == {"n", "o"}

RECURSIVE SeqsUpTo(_, _)
SeqsUpTo(S, n) ==
  IF n = 0 THEN {<<>>}
  ELSE LET shorter == SeqsUpTo(S, n - 1)
       IN  shorter \cup {Append(s, c) : s \in {t \in shorter : Len(t) = n - 1}, c \in S}

\* str.rstrip("/")
RECURSIVE RStrip(_)
RStrip(s) ==
  IF s # <<>> /\ s[Len(s)] = Slash THEN RStrip(SubSeq(s, 1, Len(s) - 1)) ELSE s

\* str.lstrip("/")
RECURSIVE LStrip(_)
LStrip(s) ==
  IF s # <<>> /\ s[1] = Slash THEN LStrip(Tail(s)) ELSE s

\* Path.name: the last component, "" for the root
PathName(path) == IF path = <<>> THEN <<>> ELSE path[Len(path)]

\* f"{local_path.name}.zip"
ZipFilename(name) == name \o ZipSuffix

\* f"{s3_prefix.rstrip('/')}/{zip_filename}".lstrip("/") (S3KeyNoLStrip: the
\* same without the final lstrip)
S3KeyNoLStrip(pfx, name) == RStrip(pfx) \o <<Slash>> \o ZipFilename(name)
S3Key(pfx, name) == LStrip(RStrip(pfx) \o <<Slash>> \o ZipFilename(name))

IsPrefix(a, b) == Len(a) <= Len(b) /\ SubSeq(b, 1, Len(a)) = a
IsProperPrefix(a, b) == Len(a) < Len(b) /\ SubSeq(b, 1, Len(a)) = a
Prefixes(path) == {SubSeq(path, 1, n) : n \in 0 .. Len(path)}

\* file_path.relative_to(local_path)
RelativeTo(path, base) == SubSeq(path, Len(base) + 1, Len(path))

\* The archive member name of a relative path: its components joined by "/"
\* (ArcNameBaseOnly: the file name alone).
ArcNameBaseOnly(rel) == PathName(rel)

RECURSIVE ArcName(_)
ArcName(rel) ==
  IF rel = <<>> THEN <<>>
  ELSE IF Len(rel) = 1 THEN rel[1]
  ELSE rel[1] \o <<Slash>> \o ArcName(Tail(rel))

\* member.filename.split("/") with the empty components dropped (zipfile's
\* _extract_member).
RECURSIVE SplitArc(_, _)
SplitArc(s, cur) ==
  IF s = <<>> THEN (IF cur = <<>> THEN <<>> ELSE <<cur>>)
  ELSE IF s[1] = Slash
       THEN (IF cur = <<>> THEN <<>> ELSE <<cur>>) \o SplitArc(Tail(s), <<>>)
       ELSE SplitArc(Tail(s), Append(cur, s[1]))


\* ------------------------------------------------------------- the world
\* Local paths the callers pass.
SrcA == << <<"n">> >>
SrcB == << <<"x">>, <<"n">> >>
RegFile == << <<"f">> >>
Missing == << <<"m">> >>
DstNested == << <<"p">>, <<"o">> >>
DstEmpty == << <<"q">> >>
EmptySub == << <<"n">>, <<"e">> >>

\* Files a source folder may hold, relative to it.
RelPaths == { << <<"a">> >>, << <<"s">>, <<"a">> >>, << <<"s">>, <<"t">>, <<"a">> >> }

UploadPaths == {SrcA, SrcB, RegFile, Missing}
DownloadPaths == {DstNested, DstEmpty, RegFile}
MainPrefixes == { <<>>, <<Slash, "b", Slash>> }
GarbageKey == <<"g">>
OnePrefix == { <<Slash, "b", Slash>> }
DownloadKeys(pres) == {S3Key(pre, PathName(SrcA)) : pre \in pres} \cup {GarbageKey}
DefaultRegion == "us-east-1"
Regions == {DefaultRegion, "eu-west-1"}
TmpNames == 1 .. MaxCalls
NoTmp == 0

\* The content of a file that holds (or is to hold) a zip archive. zip is
\* TRUE once the archive is closed (central directory written); by is
\* the folder the archive was made from (history, read by no action).
EmptyBlob == [zip |-> FALSE, entries |-> {}, by |-> <<>>]
GarbageBlob == [zip |-> FALSE, entries |-> {<<<<"?">>, 0>>}, by |-> <<>>]

NoError == <<>>
FileNotFoundError == <<"FileNotFoundError">>
NotADirectoryError == <<"NotADirectoryError">>
NoPermissionError == <<"Exception", "No permission to access bucket">>
FailedToCreateError(cause) == <<"Exception", "Failed to create bucket", cause>>
UnlinkError == <<"OSError", "unlink">>

VARIABLES
  region,        \* self.region
  bucketExists,  \* whether the remote bucket self.bucket_name exists
  objects,       \* the bucket's objects: key -> blob
  files,         \* local regular files: path -> content
  dirs,          \* local directories
  tmp,           \* files of the temporary directory: name -> blob
  pc,            \* each caller's position
  op,            \* the call each caller is in, or last was in
  local_path,    \* each call's local_path
  s3_prefix,     \* an upload's s3_prefix
  s3_key,        \* an upload's s3_key, a download's s3_prefix argument
  temp_zip_name, \* temp_zip.name of the call
  todo,          \* files os.walk has still to yield
  err,           \* the exception the call raised
  net,           \* the transport calls the current call has made
  ncalls,        \* calls started so far
  kprefix, kname, kout   \* key derivation on its own: inputs and result

vars == <<region, bucketExists, objects, files, dirs, tmp, pc, op, local_path,
          s3_prefix, s3_key, temp_zip_name, todo, err, net, ncalls,
          kprefix, kname, kout>>
world == <<region, bucketExists, objects, files, dirs, tmp>>
keyvars == <<kprefix, kname, kout>>

Put(f, k, v) == [x \in DOMAIN f \cup {k} |-> IF x = k THEN v ELSE f[x]]
Remove(f, k) == [x \in DOMAIN f \ {k} |-> f[x]]

NetCall(o, a, r, b) == [op |-> o, arg |-> a, res |-> r, body |-> b]
Calls(p, o) == {i \in 1 .. Len(net[p]) : net[p][i].op = o}

\* Path.exists / Path.is_dir
PathExists(path) == path \in dirs \/ path \in DOMAIN files
IsDir(path) == path \in dirs

\* os.walk(local_path): every file below local_path
Walk(path) == {f \in DOMAIN files : IsProperPrefix(path, f)}

\* All trees a source folder may hold, and the one the two concurrent
\* callers work on: a file at the top and one two directories down.
Trees == UNION {[S -> Contents] : S \in SUBSET RelPaths}
TwoFiles == [r \in { << <<"a">> >>, << <<"s">>, <<"t">>, <<"a">> >> } |-> IF Len(r) = 1 THEN 1 ELSE 2]

InitWorld(trees, regions) ==
  /\ region \in regions
  /\ bucketExists \in BOOLEAN
  /\ objects = [k \in {GarbageKey} |-> GarbageBlob]
  /\ \E t \in trees :
       /\ files = [f \in {SrcA \o r : r \in DOMAIN t} \cup {SrcB \o << <<"a">> >>, RegFile}
                     |-> IF f = RegFile THEN 1
                         ELSE IF IsProperPrefix(SrcA, f) THEN t[RelativeTo(f, SrcA)]
                         ELSE Cardinality(Contents) + 1]
       /\ dirs = UNION {Prefixes(SrcA \o SubSeq(r, 1, Len(r) - 1)) : r \in DOMAIN t}
                   \cup Prefixes(SrcB) \cup Prefixes(EmptySub) \cup Prefixes(DstEmpty)
  /\ tmp = << >>

InitCalls ==
  /\ pc = [p \in Procs |-> "idle"]
  /\ op = [p \in Procs |-> "none"]
  /\ local_path = [p \in Procs |-> <<>>]
  /\ s3_prefix = [p \in Procs |-> <<>>]
  /\ s3_key = [p \in Procs |-> <<>>]
  /\ temp_zip_name = [p \in Procs |-> NoTmp]
  /\ todo = [p \in Procs |-> {}]
  /\ err = [p \in Procs |-> NoError]
  /\ net = [p \in Procs |-> <<>>]
  /\ ncalls = 0

Init ==
  /\ InitWorld({TwoFiles}, Regions)
  /\ InitCalls
  /\ kprefix = <<>> /\ kname = <<>> /\ kout = <<>>

Returned(p) == pc[p] \in {"idle", "done", "failed"}

Goto(p, l) == pc' = [pc EXCEPT ![p] = l]
Raise(p, e) == pc' = [pc EXCEPT ![p] = "failed"] /\ err' = [err EXCEPT ![p] = e]
Log(p, c) == net' = [net EXCEPT ![p] = Append(@, c)]

\* A caller enters upload_folder(local_path, s3_prefix), s3_prefix among pres.
StartUpload(p, pres) ==
  /\ Returned(p) /\ ncalls < MaxCalls
  /\ \E lp \in UploadPaths, pre \in pres :
       /\ local_path' = [local_path EXCEPT ![p] = lp]
       /\ s3_prefix' = [s3_prefix EXCEPT ![p] = pre]
  /\ s3_key' = [s3_key EXCEPT ![p] = <<>>]
  /\ temp_zip_name' = [temp_zip_name EXCEPT ![p] = NoTmp]
  /\ todo' = [todo EXCEPT ![p] = {}]
  /\ err' = [err EXCEPT ![p] = NoError]
  /\ net' = [net EXCEPT ![p] = <<>>]
  /\ ncalls' = ncalls + 1
  /\ op' = [op EXCEPT ![p] = "upload"]
  /\ Goto(p, "u_head")
  /\ UNCHANGED <<world, keyvars>>

\* What __create_bucket_if_doesnt_exist does with head_bucket's response:
\* the next position and the exception raised. Two faulty variants come
\* first: one creates the bucket on every error code but 403, one creates it
\* on 403 as well.
AfterHeadCreatesOnAnyError(r) ==
  CASE r = "200" -> [pc |-> "u_check", err |-> NoError]
    [] r = "403" -> [pc |-> "failed", err |-> NoPermissionError]
    [] OTHER -> [pc |-> "u_create", err |-> NoError]

AfterHeadCreatesOnForbidden(r) ==
  CASE r = "200" -> [pc |-> "u_check", err |-> NoError]
    [] r \in {"404", "403"} -> [pc |-> "u_create", err |-> NoError]
    [] r = "500" -> [pc |-> "failed", err |-> <<"ClientError", r>>]
    [] OTHER -> [pc |-> "failed", err |-> <<r>>]

AfterHead(r) ==
  CASE r = "200" -> [pc |-> "u_check", err |-> NoError]
    [] r = "404" -> [pc |-> "u_create", err |-> NoError]
    [] r = "403" -> [pc |-> "failed", err |-> NoPermissionError]
    [] r = "500" -> [pc |-> "failed", err |-> <<"ClientError", r>>]
    [] OTHER -> [pc |-> "failed", err |-> <<r>>]

\* head_bucket's answers: 200, a ClientError with code 404, 403 or another
\* code, or an exception that is no ClientError.
HeadResponses ==
  (IF bucketExists THEN {"200"} ELSE {"404"}) \cup {"403", "500", "ConnectionError"}

HeadBucket(p) ==
  /\ pc[p] = "u_head"
  /\ \E r \in HeadResponses :
       /\ Log(p, NetCall("head_bucket", <<>>, r, EmptyBlob))
       /\ pc' = [pc EXCEPT ![p] = AfterHead(r).pc]
       /\ err' = [err EXCEPT ![p] = AfterHead(r).err]
  /\ UNCHANGED <<world, op, local_path, s3_prefix, s3_key, temp_zip_name, todo, ncalls, keyvars>>

\* What the ensurer does with create_bucket's outcome (the faulty variant
\* first: a ClientError of create_bucket is swallowed).
AfterCreateIgnoresFailure(r) ==
  CASE r \in {"ok", "ClientError"} -> [pc |-> "u_check", err |-> NoError]
    [] OTHER -> [pc |-> "failed", err |-> <<r>>]

AfterCreate(r) ==
  CASE r = "ok" -> [pc |-> "u_check", err |-> NoError]
    [] r = "ClientError" -> [pc |-> "failed", err |-> FailedToCreateError(r)]
    [] OTHER -> [pc |-> "failed", err |-> <<r>>]

CreateResponses == {"ok", "ClientError", "ConnectionError"}

\* CreateBucketConfiguration={"LocationConstraint": self.region}
LocationConstraint == region

CreateBucket(p) ==
  /\ pc[p] = "u_create"
  /\ \E r \in CreateResponses :
       /\ Log(p, NetCall("create_bucket", <<LocationConstraint>>, r, EmptyBlob))
       /\ bucketExists' = (bucketExists \/ r = "ok")
       /\ pc' = [pc EXCEPT ![p] = AfterCreate(r).pc]
       /\ err' = [err EXCEPT ![p] = AfterCreate(r).err]
  /\ UNCHANGED <<region, objects, files, dirs, tmp, op, local_path, s3_prefix, s3_key, temp_zip_name,
                 todo, ncalls, keyvars>>

\* The exception of the two local-path checks, NoError when both pass (the
\* faulty variant first: the is_dir check is missing).
LocalPathErrorNoDirCheck(path) ==
  IF ~PathExists(path) THEN FileNotFoundError ELSE NoError

LocalPathError(path) ==
  IF ~PathExists(path) THEN FileNotFoundError
  ELSE IF ~IsDir(path) THEN NotADirectoryError
  ELSE NoError

CheckLocalPath(p) ==
  /\ pc[p] = "u_check"
  /\ IF LocalPathError(local_path[p]) = NoError
       THEN Goto(p, "u_mktemp") /\ UNCHANGED err
       ELSE Raise(p, LocalPathError(local_path[p]))
  /\ UNCHANGED <<world, op, local_path, s3_prefix, s3_key, temp_zip_name, todo, net, ncalls, keyvars>>


\* ------------------------------------------------- temporary file, archive
\* The names tempfile may give a new file: those no existing file has (the
\* faulty variant first: any name, in use or not).
AnyName(existing) == TmpNames
FreshNames(existing) == TmpNames \ existing

\* tempfile.NamedTemporaryFile(suffix=".zip", delete=False), of both calls
NamedTemporaryFile(p) ==
  /\ pc[p] \in {"u_mktemp", "d_mktemp"}
  /\ \E n \in FreshNames(DOMAIN tmp) :
       /\ tmp' = Put(tmp, n, EmptyBlob)
       /\ temp_zip_name' = [temp_zip_name EXCEPT ![p] = n]
  /\ Goto(p, IF pc[p] = "u_mktemp" THEN "u_zipopen" ELSE "d_get")
  /\ UNCHANGED <<region, bucketExists, objects, files, dirs, op, local_path, s3_prefix, s3_key,
                 todo, err, net, ncalls, keyvars>>

\* zipfile.ZipFile(temp_zip.name, "w", ZIP_DEFLATED) and the start of os.walk
ZipOpen(p) ==
  /\ pc[p] = "u_zipopen"
  /\ tmp' = Put(tmp, temp_zip_name[p], [zip |-> FALSE, entries |-> {}, by |-> local_path[p]])
  /\ todo' = [todo EXCEPT ![p] = Walk(local_path[p])]
  /\ Goto(p, "u_walk")
  /\ UNCHANGED <<region, bucketExists, objects, files, dirs, op, local_path, s3_prefix, s3_key,
                 temp_zip_name, err, net, ncalls, keyvars>>

\* The archive member zipf.write(file_path, file_path.relative_to(local_path))
\* adds for file f of the folder.
Member(f, folder) == <<ArcName(RelativeTo(f, folder)), files[f]>>

\* One file of the walk: written to the archive, or the read fails.
ZipWrite(p) ==
  /\ pc[p] = "u_walk"
  /\ \E f \in todo[p] :
       \/ /\ tmp' = Put(tmp, temp_zip_name[p],
                        [zip |-> FALSE,
                         entries |-> (IF temp_zip_name[p] \in DOMAIN tmp
                                        THEN tmp[temp_zip_name[p]].entries ELSE {})
                                      \cup {Member(f, local_path[p])},
                         by |-> local_path[p]])
          /\ todo' = [todo EXCEPT ![p] = @ \ {f}]
          /\ UNCHANGED <<pc, err>>
       \/ /\ Raise(p, <<"OSError", "read">>)
          /\ UNCHANGED <<tmp, todo>>
  /\ UNCHANGED <<region, bucketExists, objects, files, dirs, op, local_path, s3_prefix, s3_key,
                 temp_zip_name, net, ncalls, keyvars>>

\* The walk is over: the archive is closed and the key computed.
ZipClose(p) ==
  /\ pc[p] = "u_walk" /\ todo[p] = {}
  /\ tmp' = Put(tmp, temp_zip_name[p],
                [zip |-> TRUE,
                 entries |-> (IF temp_zip_name[p] \in DOMAIN tmp
                                THEN tmp[temp_zip_name[p]].entries ELSE {}),
                 by |-> local_path[p]])
  /\ s3_key' = [s3_key EXCEPT ![p] = S3Key(s3_prefix[p], PathName(local_path[p]))]
  /\ Goto(p, "u_upload")
  /\ UNCHANGED <<region, bucketExists, objects, files, dirs, op, local_path, s3_prefix,
                 temp_zip_name, todo, err, net, ncalls, keyvars>>

\* self.s3_client.upload_file(temp_zip.name, self.bucket_name, s3_key)
UploadFile(p) ==
  /\ pc[p] = "u_upload"
  /\ \/ /\ temp_zip_name[p] \in DOMAIN tmp
        /\ objects' = Put(objects, s3_key[p], tmp[temp_zip_name[p]])
        /\ Log(p, NetCall("upload_file", s3_key[p], "ok", tmp[temp_zip_name[p]]))
        /\ Goto(p, "u_unlink")
        /\ UNCHANGED err
     \/ /\ Log(p, NetCall("upload_file", s3_key[p], "S3UploadFailedError", EmptyBlob))
        /\ Raise(p, <<"S3UploadFailedError">>)
        /\ UNCHANGED objects
  /\ UNCHANGED <<region, bucketExists, files, dirs, tmp, op, local_path, s3_prefix, s3_key,
                 temp_zip_name, todo, ncalls, keyvars>>

\* os.unlink(temp_zip.name), the last statement of both calls
Unlink(p) ==
  /\ pc[p] \in {"u_unlink", "d_unlink"}
  /\ \/ /\ temp_zip_name[p] \in DOMAIN tmp
        /\ tmp' = Remove(tmp, temp_zip_name[p])
        /\ Goto(p, "done")
        /\ UNCHANGED err
     \/ /\ Raise(p, UnlinkError)
        /\ UNCHANGED tmp
  /\ UNCHANGED <<region, bucketExists, objects, files, dirs, op, local_path, s3_prefix, s3_key,
                 temp_zip_name, todo, net, ncalls, keyvars>>

\* ---------------------------------------------------------------- download
\* A caller enters download_folder(s3_prefix, local_path), for a key an upload
\* under a prefix of pres computes or the key of the object that is no zip.
StartDownload(p, pres) ==
  /\ Returned(p) /\ ncalls < MaxCalls
  /\ \E k \in DownloadKeys(pres), lp \in DownloadPaths :
       /\ s3_key' = [s3_key EXCEPT ![p] = k]
       /\ local_path' = [local_path EXCEPT ![p] = lp]
  /\ s3_prefix' = [s3_prefix EXCEPT ![p] = <<>>]
  /\ temp_zip_name' = [temp_zip_name EXCEPT ![p] = NoTmp]
  /\ todo' = [todo EXCEPT ![p] = {}]
  /\ err' = [err EXCEPT ![p] = NoError]
  /\ net' = [net EXCEPT ![p] = <<>>]
  /\ ncalls' = ncalls + 1
  /\ op' = [op EXCEPT ![p] = "download"]
  /\ Goto(p, "d_mktemp")
  /\ UNCHANGED <<world, keyvars>>

\* self.s3_client.download_file(self.bucket_name, s3_prefix, temp_zip.name)
DownloadFile(p) ==
  /\ pc[p] = "d_get"
  /\ \/ /\ s3_key[p] \in DOMAIN objects
        /\ tmp' = Put(tmp, temp_zip_name[p], objects[s3_key[p]])
        /\ Log(p, NetCall("download_file", s3_key[p], "ok", objects[s3_key[p]]))
        /\ Goto(p, "d_mkdir")
        /\ UNCHANGED err
     \/ /\ s3_key[p] \notin DOMAIN objects
        /\ Log(p, NetCall("download_file", s3_key[p], "404", EmptyBlob))
        /\ Raise(p, <<"ClientError", "404">>)
        /\ UNCHANGED tmp
     \/ /\ Log(p, NetCall("download_file", s3_key[p], "ConnectionError", EmptyBlob))
        /\ Raise(p, <<"ConnectionError">>)
        /\ UNCHANGED tmp
  /\ UNCHANGED <<region, bucketExists, objects, files, dirs, op, local_path, s3_prefix, s3_key,
                 temp_zip_name, todo, ncalls, keyvars>>

\* local_path.mkdir(parents=True, exist_ok=True)
Mkdir(p) ==
  /\ pc[p] = "d_mkdir"
  /\ \/ /\ Prefixes(local_path[p]) \cap DOMAIN files = {}
        /\ dirs' = dirs \cup Prefixes(local_path[p])
        /\ Goto(p, "d_extract")
        /\ UNCHANGED err
     \/ /\ Prefixes(local_path[p]) \cap DOMAIN files # {}
        /\ Raise(p, <<"FileExistsError">>)
        /\ UNCHANGED dirs
     \/ /\ Raise(p, <<"PermissionError">>)
        /\ UNCHANGED dirs
  /\ UNCHANGED <<region, bucketExists, objects, files, tmp, op, local_path, s3_prefix, s3_key,
                 temp_zip_name, todo, net, ncalls, keyvars>>

\* Where extractall puts a member below the destination.
Target(dest, arc) == dest \o SplitArc(arc, <<>>)

\* The local files once the members in es are extracted below dest.
Extracted(es, dest) ==
  LET targets == {Target(dest, e[1]) : e \in es}
  IN  [f \in DOMAIN files \cup targets |->
         IF f \in targets
           THEN (CHOOSE e \in es : Target(dest, e[1]) = f)[2]
           ELSE files[f]]

ExtractedDirs(es, dest) ==
  dirs \cup UNION {Prefixes(Target(dest, e[1])) \ {Target(dest, e[1])} : e \in es}

\* A member extractall cannot write: its target is a directory, or lies
\* below a regular file.
Blocked(es, dest) ==
  \E e \in es :
    \/ Target(dest, e[1]) \in dirs
    \/ \E a \in Prefixes(Target(dest, e[1])) \ {Target(dest, e[1])} : a \in DOMAIN files

\* zipfile.ZipFile(temp_zip.name, "r") and zipf.extractall(local_path)
ExtractAll(p) ==
  /\ pc[p] = "d_extract"
  /\ LET blob == IF temp_zip_name[p] \in DOMAIN tmp THEN tmp[temp_zip_name[p]] ELSE EmptyBlob
     IN  \/ /\ ~blob.zip
            /\ Raise(p, <<"BadZipFile">>)
            /\ UNCHANGED <<files, dirs>>
         \/ /\ blob.zip /\ ~Blocked(blob.entries, local_path[p])
            /\ files' = Extracted(blob.entries, local_path[p])
            /\ dirs' = ExtractedDirs(blob.entries, local_path[p])
            /\ Goto(p, "d_unlink")
            /\ UNCHANGED err
         \/ /\ blob.zip
            /\ \E part \in SUBSET blob.entries :
                 /\ part # blob.entries \/ Blocked(blob.entries, local_path[p])
                 /\ ~Blocked(part, local_path[p])
                 /\ files' = Extracted(part, local_path[p])
                 /\ dirs' = ExtractedDirs(part, local_path[p])
            /\ Raise(p, <<"OSError", "write">>)
  /\ UNCHANGED <<region, bucketExists, objects, tmp, op, local_path, s3_prefix, s3_key, temp_zip_name,
                 todo, net, ncalls, keyvars>>

\* One step of one of the callers in P, whose uploads use the prefixes pres.
Step(P, pres) ==
  \E p \in P :
    \/ StartUpload(p, pres)
    \/ HeadBucket(p)
    \/ CreateBucket(p)
    \/ CheckLocalPath(p)
    \/ NamedTemporaryFile(p)
    \/ ZipOpen(p)
    \/ ZipWrite(p)
    \/ ZipClose(p)
    \/ UploadFile(p)
    \/ Unlink(p)
    \/ StartDownload(p, pres)
    \/ DownloadFile(p)
    \/ Mkdir(p)
    \/ ExtractAll(p)

\* Two threads call the client concurrently.
Next == Step(Procs, OnePrefix)

Spec == Init /\ [][Next]_vars

\* One thread calls the client, one call after the other, on any source tree.
InitSeq ==
  /\ InitWorld(Trees, {DefaultRegion})
  /\ InitCalls
  /\ kprefix = <<>> /\ kname = <<>> /\ kout = <<>>

NextSeq == Step({1}, MainPrefixes)

SpecSeq == InitSeq /\ [][NextSeq]_vars


\* ------------------------------------------------ key derivation on its own
Undecided == <<"?">>

InitKey ==
  /\ InitWorld({TwoFiles}, {DefaultRegion})
  /\ InitCalls
  /\ kprefix \in SeqsUpTo(Chars, MaxPrefixLen)
  /\ kname \in SeqsUpTo(NameChars, MaxNameLen)
  /\ kout = Undecided

\* The key upload_folder computes for s3_prefix = kprefix and a folder named kname.
DeriveKey ==
  /\ kout = Undecided
  /\ kout' = S3Key(kprefix, kname)
  /\ UNCHANGED <<world, pc, op, local_path, s3_prefix, s3_key, temp_zip_name, todo, err, net, ncalls,
                 kprefix, kname>>

NextKey == DeriveKey

SpecKey == InitKey /\ [][NextKey]_vars

\* -------------------------------------------------------------- properties
Finished(p) == pc[p] \in {"done", "failed"}
IsUpload(p) == op[p] = "upload"
IsDownload(p) == op[p] = "download"
HeadResult(p) == IF net[p] # <<>> /\ net[p][1].op = "head_bucket" THEN net[p][1].res ELSE "none"
CreateResult(p) ==
  IF Len(net[p]) >= 2 /\ net[p][2].op = "create_bucket" THEN net[p][2].res ELSE "none"
EnsureSucceeded(p) == HeadResult(p) = "200" \/ CreateResult(p) = "ok"
HoldsTemp(p) ==
  pc[p] \in {"u_zipopen", "u_walk", "u_upload", "u_unlink",
             "d_get", "d_mkdir", "d_extract", "d_unlink"}

\* The complete archive of folder d.
ArchiveOf(d) ==
  [zip |-> TRUE, entries |-> {Member(f, d) : f \in Walk(d)}, by |-> d]

\* The files below d in the file system fs, by their path relative to d.
TreeOf(fs, d) ==
  [r \in {RelativeTo(f, d) : f \in {g \in DOMAIN fs : IsProperPrefix(d, g)}} |-> fs[d \o r]]

\* C1 as stated: an upload_folder call that fails its local-path checks raises
\* FileNotFoundError for a missing path and NotADirectoryError for a path that
\* is no directory, whatever the bucket's state, and has by then made no
\* transport call and created no file.
C1_ChecksBeforeSideEffects ==
  \A p \in Procs :
    (IsUpload(p) /\ Finished(p) /\ ~IsDir(local_path[p])) =>
      /\ err[p] = (IF PathExists(local_path[p]) THEN NotADirectoryError ELSE FileNotFoundError)
      /\ net[p] = <<>>
      /\ temp_zip_name[p] = NoTmp

\* C1 as amended: the local-path checks come after the bucket-ensure step and
\* before the temporary archive. In a call whose ensure step succeeded a
\* missing path raises FileNotFoundError and a non-directory
\* NotADirectoryError; such a call has issued the probe (and the creation on
\* not-found) and has created no temporary file and attempted no upload.
C1_ChecksAfterEnsure ==
  \A p \in Procs :
    (IsUpload(p) /\ Finished(p)) =>
      /\ (EnsureSucceeded(p) /\ ~IsDir(local_path[p])) =>
           /\ pc[p] = "failed"
           /\ err[p] = (IF PathExists(local_path[p]) THEN NotADirectoryError
                        ELSE FileNotFoundError)
      /\ (err[p] \in {FileNotFoundError, NotADirectoryError}) =>
           /\ EnsureSucceeded(p) /\ ~IsDir(local_path[p])
           /\ Calls(p, "head_bucket") # {}
           /\ (HeadResult(p) = "404" => Calls(p, "create_bucket") # {})
           /\ Calls(p, "upload_file") = {}
           /\ temp_zip_name[p] = NoTmp

\* C1: an upload of a missing path fails with FileNotFoundError after the probe
\* and a successful create_bucket.
C1_Witness ==
  \E p \in Procs :
    /\ pc[p] = "failed" /\ err[p] = FileNotFoundError
    /\ local_path[p] = Missing /\ CreateResult(p) = "ok"

\* C2: when upload_file fails after the archive was built, the temporary
\* archive no longer exists once the call has returned, and the caller sees
\* the transport error.
C2_TempGoneAfterFailedUpload ==
  \A p \in Procs :
    (IsUpload(p) /\ pc[p] = "failed"
       /\ \E i \in Calls(p, "upload_file") : net[p][i].res # "ok") =>
      /\ temp_zip_name[p] \notin DOMAIN tmp
      /\ err[p] = <<"S3UploadFailedError">>

\* C3: on every exit of download_folder the temporary file of the call has
\* been deleted by the time the call returns.
C3_TempGoneAfterDownload ==
  \A p \in Procs :
    (IsDownload(p) /\ Finished(p)) => temp_zip_name[p] \notin DOMAIN tmp

\* C4: a probe answered 403 makes upload_folder fail with the no-permission
\* exception, with no create_bucket and no upload_file call in that call.
C4_ForbiddenProbe ==
  \A p \in Procs :
    (IsUpload(p) /\ HeadResult(p) = "403") =>
      /\ pc[p] = "failed"
      /\ err[p] = NoPermissionError
      /\ Calls(p, "create_bucket") = {}
      /\ Calls(p, "upload_file") = {}
      /\ temp_zip_name[p] = NoTmp

\* C4: an upload whose probe was answered 403 has failed.
C4_Witness ==
  \E p \in Procs : IsUpload(p) /\ HeadResult(p) = "403" /\ pc[p] = "failed"

\* The prefix without its leading and trailing "/" characters.
Core(s) ==
  LET keep == {i \in 1 .. Len(s) : s[i] # Slash}
  IN  IF keep = {} THEN <<>>
      ELSE SubSeq(s, CHOOSE i \in keep : \A j \in keep : i <= j,
                     CHOOSE i \in keep : \A j \in keep : i >= j)

\* C5: the key is the prefix stripped of leading and trailing "/", then "/"
\* and "<name>.zip" when the stripped prefix is not empty, and "<name>.zip"
\* alone when it is; it never starts with "/". With "b" for "backups" and
\* "n" for "notes", prefixes "", "b/" and "/b/" give "n.zip", "b/n.zip" and
\* "b/n.zip".
C5_KeyDerivation ==
  kout # Undecided =>
    /\ kout = (IF Core(kprefix) = <<>> THEN kname \o ZipSuffix
               ELSE Core(kprefix) \o <<Slash>> \o kname \o ZipSuffix)
    /\ kout[1] # Slash
    /\ (kname = <<"n">> /\ kprefix = <<>>) => kout = <<"n">> \o ZipSuffix
    /\ (kname = <<"n">> /\ kprefix \in {<<"b", Slash>>, <<Slash, "b", Slash>>})
         => kout = <<"b", Slash, "n">> \o ZipSuffix

\* C5: prefix "/b/" and folder name "n" give "b/n.zip".
C5_Witness ==
  /\ kprefix = <<Slash, "b", Slash>> /\ kname = <<"n">>
  /\ kout = <<"b", Slash, "n", ".", "z", "i", "p">>

\* C6: when download_folder extracts, into a destination that held no file,
\* the object an upload_folder call stored under the key it computed, the
\* destination afterwards holds exactly the uploaded folder's relative file
\* paths, each with the same content.
C6_RoundTrip ==
  [][\A p \in Procs :
       ( /\ pc[p] = "d_extract" /\ pc'[p] = "d_unlink"
         /\ temp_zip_name[p] \in DOMAIN tmp
         /\ tmp[temp_zip_name[p]].by \in UploadPaths
         /\ s3_key[p] \in {S3Key(pre, PathName(tmp[temp_zip_name[p]].by)) : pre \in MainPrefixes}
         /\ TreeOf(files, local_path[p]) = << >> )
       => TreeOf(files', local_path[p]) = TreeOf(files, tmp[temp_zip_name[p]].by)]_vars

\* C6: a download into the nested, absent destination has returned; the
\* destination holds the three files of the source folder, two of them of
\* different content, and not its empty directory.
C6_Witness ==
  \E p \in Procs :
    /\ IsDownload(p) /\ pc[p] = "done" /\ local_path[p] = DstNested
    /\ DOMAIN TreeOf(files, SrcA) = RelPaths
    /\ TreeOf(files, DstNested) = TreeOf(files, SrcA)
    /\ files[SrcA \o << <<"a">> >>] # files[SrcA \o << <<"s">>, <<"a">> >>]
    /\ EmptySub \in dirs
    /\ DstNested \o << <<"e">> >> \notin dirs

\* C7: an upload_folder call issues create_bucket at most once, only after
\* its probe was answered 404, and never after its probe succeeded.
C7_EnsureIdempotent ==
  \A p \in Procs :
    IsUpload(p) =>
      /\ Cardinality(Calls(p, "create_bucket")) <= 1
      /\ Cardinality(Calls(p, "head_bucket")) <= 1
      /\ Calls(p, "create_bucket") # {} => HeadResult(p) = "404"
      /\ HeadResult(p) = "200" => Calls(p, "create_bucket") = {}

\* C7: one call created the bucket, another call probed it with success and
\* returned without a create_bucket call.
C7_Witness ==
  \E p, q \in Procs :
    /\ p # q
    /\ IsUpload(q) /\ CreateResult(q) = "ok"
    /\ IsUpload(p) /\ pc[p] = "done" /\ HeadResult(p) = "200"
    /\ Calls(p, "create_bucket") = {}

\* C8: a failing delete of the temporary file is not what the caller sees:
\* no call ends with the exception of os.unlink.
C8_UnlinkFailureNotPropagated ==
  \A p \in Procs : pc[p] = "failed" => err[p] # UnlinkError

\* What C9 says of one call, for the exceptions of create_bucket in wrapped
\* that must surface as the failed-to-create exception.
EnsureOutcome(p, wrapped) ==
  /\ (HeadResult(p) = "404" /\ pc[p] # "u_create") =>
       /\ Cardinality(Calls(p, "create_bucket")) = 1
       /\ net[p][2].arg = <<region>>
  /\ CreateResult(p) = "ok" =>
       /\ pc[p] = "failed" => err[p] \notin {NoPermissionError, <<"ClientError", "500">>,
                                             <<"ConnectionError">>}
       /\ (Finished(p) /\ IsDir(local_path[p])) => temp_zip_name[p] # NoTmp
  /\ CreateResult(p) \in wrapped =>
       /\ pc[p] = "failed"
       /\ err[p] = FailedToCreateError(CreateResult(p))
       /\ Calls(p, "upload_file") = {}
  /\ CreateResult(p) \in (CreateResponses \ {"ok"}) \ wrapped =>
       /\ pc[p] = "failed"
       /\ err[p] = <<CreateResult(p)>>
       /\ Calls(p, "upload_file") = {}
  /\ HeadResult(p) \in {"500", "ConnectionError"} =>
       /\ pc[p] = "failed"
       /\ err[p] = (IF HeadResult(p) = "500" THEN <<"ClientError", "500">>
                    ELSE <<"ConnectionError">>)
       /\ Calls(p, "create_bucket") = {}
       /\ Calls(p, "upload_file") = {}

\* C9 as stated: after a 404 probe create_bucket is called with the client's
\* region; when it succeeds the call goes on, when it fails (in any way) the
\* call fails with the failed-to-create exception wrapping the cause and
\* uploads nothing; any other probe error is re-raised as it is.
C9_CreateFailureAlwaysWrapped ==
  \A p \in Procs : IsUpload(p) => EnsureOutcome(p, CreateResponses \ {"ok"})

\* C9 as amended: only a ClientError of create_bucket is wrapped in the
\* failed-to-create exception; any other exception of create_bucket reaches
\* the caller unmodified. In both cases nothing is uploaded.
C9_ClientErrorWrapped ==
  \A p \in Procs : IsUpload(p) => EnsureOutcome(p, {"ClientError"})

\* C9: create_bucket failed with a ClientError and the call raised the
\* failed-to-create exception.
C9_Witness ==
  \E p \in Procs :
    /\ IsUpload(p) /\ CreateResult(p) = "ClientError"
    /\ err[p] = FailedToCreateError("ClientError")

\* C10: calls in progress hold distinct temporary files; a temporary file
\* holds only what its own call wrote; every upload transfers the complete
\* archive of its own folder; every object in the bucket is the complete
\* archive of one uploaded folder (or was there from the start).
C10_NoTempCollision ==
  /\ \A p, q \in Procs : (p # q /\ HoldsTemp(p) /\ HoldsTemp(q)) => temp_zip_name[p] # temp_zip_name[q]
  /\ \A p \in Procs :
       /\ HoldsTemp(p) => temp_zip_name[p] \in DOMAIN tmp
       /\ pc[p] \in {"u_walk", "u_upload", "u_unlink"} =>
            /\ tmp[temp_zip_name[p]].by = local_path[p]
            /\ tmp[temp_zip_name[p]].entries \subseteq ArchiveOf(local_path[p]).entries
       /\ pc[p] \in {"d_mkdir", "d_extract", "d_unlink"} =>
            tmp[temp_zip_name[p]] = net[p][1].body
       /\ \A i \in Calls(p, "upload_file") :
            net[p][i].res = "ok" => net[p][i].body = ArchiveOf(local_path[p])
  /\ \A k \in DOMAIN objects :
       \/ k = GarbageKey /\ objects[k] = GarbageBlob
       \/ \E d \in UploadPaths : IsDir(d) /\ objects[k] = ArchiveOf(d)

\* C10: two concurrent uploads of different folders to the same key have both
\* uploaded, each from its own temporary file.
C10_Witness ==
  \E p, q \in Procs :
    /\ p # q /\ local_path[p] = SrcA /\ local_path[q] = SrcB
    /\ pc[p] = "u_unlink" /\ pc[q] = "u_unlink"
    /\ s3_key[p] = s3_key[q]
    /\ objects[s3_key[p]] = ArchiveOf(SrcA)
    /\ temp_zip_name[p] # temp_zip_name[q]

====
